---- MODULE Spec2Model ----
(***************************************************************************)
(* A model of fuzzless' lazy record store and virtual line addressing      *)
(* (src/src/fuzzless/file_reader.py) and of the pager that scrolls over it *)
(* (src/src/fuzzless/pager_widget.py, src/src/fuzzless/app.py).            *)
(*                                                                         *)
(* Text is abstracted to its length in display cells: a record is the      *)
(* length of its identifier, sequence and quality strings, a rendered      *)
(* fragment is the number of text cells it shows and the number of padding *)
(* cells added to it.  The stream is the list of the file's four-line      *)
(* records and a position counted in lines.  An exception is the name of   *)
(* the exception class in the "raised" field of a call's outcome.          *)
(***************************************************************************)
EXTENDS Integers, Sequences, FiniteSets, TLC

\* ------------------------------------------------------------- bounds
\* Files of the model hold at most MaxRecords four-line records.
MaxRecords == 3
\* Sequences are up to MaxSeqLen characters long.
MaxSeqLen == 3
\* virtual_loc_change is called with relative changes in -MaxDelta..MaxDelta.
MaxDelta == 3
\* The lengths of the identifiers (0: a blank identifier line) and of the
\* sequences of the files: a sequence that fits one line at every width, and one
\* that wraps.
IdLens == {0, 1}
SeqLens == {1, MaxSeqLen}
\* virtual_loc_change is called with line indices in 0..MaxLine: the longest
\* record takes MaxLine + 1 lines at the narrowest width, so the last index is
\* valid for it alone.
MaxLine == MaxSeqLen - 1
\* soft_wrap_line alone is applied to texts of 0..MaxTextLen cells
\* at widths 1..MaxWrapWidth.
MaxTextLen == 12
MaxWrapWidth == 7
\* Terminal widths handed to rerender (the reader keeps new_width - 9).
TermWidths == {11, 12}
\* The pager is laid out at heights 1..MaxHeight.
MaxHeight == 3
\* The ceiling of fill_read_buf scaled down, for files longer than the ceiling.
ScaledLimit == 2

\* ------------------------------------------------------------- values
\* Python's None in an Optional[int] field: an integer no index takes.
None == 0 - 100

\* ReadLineLocation(read, line, type)
ReadLineLocation(read, line, type) == [read |-> read, line |-> line, type |-> type]
DataLoc(r, l) == ReadLineLocation(r, l, "data")
EofLoc == ReadLineLocation(None, None, "eof")
StartLoc == ReadLineLocation(None, None, "start")

\* Record(seq, qual, id, direction)
Record(seq, qual, id, direction) ==
    [seq |-> seq, qual |-> qual, id |-> id, direction |-> direction]

\* The width FileReader.__init__ sets.
InitialWidth == 80
\* The hard ceiling of fill_read_buf.
ReadIdLimit == 100000
\* What rerender subtracts from the terminal width (the line-number gutter).
GutterWidth == 9

\* ------------------------------------------------------------- soft_wrap_line
\* list(range(start, stop, step)) for step > 0
Range(start, stop, step) ==
    LET n == IF stop > start THEN (stop - start + step - 1) \div step ELSE 0
    IN  [i \in 1..n |-> start + (i - 1) * step]

\* cut_points of soft_wrap_line for a line of line_length cells
CutPoints(line_length, w) == Append(Range(w, line_length - 1, w), line_length)

\* Segment.divide(line, cuts): the cell length of each piece; piece i is the
\* text between cut i-1 and cut i (every cut lies within the line here).
SegmentDivide(cuts) ==
    [i \in 1..Len(cuts) |-> cuts[i] - (IF i = 1 THEN 0 ELSE cuts[i - 1])]

\* Segment.adjust_line_length(s, length): crop to length, or pad up to it.
AdjustLineLength(cells, length) ==
    IF cells > length
    THEN [text |-> length, pad |-> 0]
    ELSE [text |-> cells, pad |-> length - cells]

\* soft_wrap_line(line, width), for width >= 1
soft_wrap_line(line_length, w) ==
    LET segments == IF line_length > w
                    THEN SegmentDivide(CutPoints(line_length, w))
                    ELSE <<line_length>>
    IN  [i \in 1..Len(segments) |-> AdjustLineLength(segments[i], w)]

\* ------------------------------------------------------------- state
VARIABLES
    file,           \* the stream's content: the file's four-line records
    pos,            \* self._file: the number of lines read from the stream
    read_buffer,    \* self.read_buffer
    width,          \* self.width
    segment_cache,  \* self.segment_cache
    total_reads,    \* self.total_reads
    closed,         \* self._file.closed
    limit,          \* the hard ceiling fill_read_buf tests its argument against
    closes,         \* how many times self._file.close() has run
    last,           \* the last call made on the reader: its name
    wrap,           \* an application of soft_wrap_line on its own
    viewport_loc,   \* PagerWidget.viewport_loc
    cursor_loc,     \* PagerWidget.cursor_loc
    height          \* PagerWidget.size.height

vars == <<file, pos, read_buffer, width, segment_cache, total_reads, closed, limit,
          closes, last, wrap, viewport_loc, cursor_loc, height>>

\* The reader object as one value, for the methods below.
Reader ==
    [file |-> file, pos |-> pos, read_buffer |-> read_buffer, width |-> width,
     segment_cache |-> segment_cache, total_reads |-> total_reads,
     closed |-> closed, limit |-> limit]

\* ------------------------------------------------------------- the stream
\* The raw length (without the newline) of line p of the file f, p from 0:
\* "@" and the identifier, the sequence, "+", the quality string.
LineLen(f, p) ==
    LET rec == f[(p \div 4) + 1]
        k == p % 4
    IN  CASE k = 0 -> rec.id + 1
          [] k = 1 -> rec.seq
          [] k = 2 -> 1
          [] k = 3 -> rec.seq

\* self._file.readline().rstrip("\n"): the line's length and the new position;
\* at the end of the file readline returns "" and the position stays.
readline(f, p) ==
    IF p < 4 * Len(f)
    THEN [len |-> LineLen(f, p), pos |-> p + 1]
    ELSE [len |-> 0, pos |-> p]

\* s without the slice: the framing marker stays on the identifier.
DropFirst_Keep(len) == len

\* s[1:]
DropFirst(len) == IF len > 0 THEN len - 1 ELSE 0

\* ------------------------------------------------------------- fill_read_buf
\* The loop of fill_read_buf, n iterations left.
RECURSIVE FillLoop(_, _)
FillLoop(fr, n) ==
    IF n <= 0 THEN fr
    ELSE LET l1 == readline(fr.file, fr.pos)
             id == DropFirst(l1.len)
         IN  IF id = 0
             THEN [fr EXCEPT !.pos = l1.pos, !.total_reads = Len(fr.read_buffer)]
             ELSE LET l2 == readline(fr.file, l1.pos)
                      l3 == readline(fr.file, l2.pos)
                      l4 == readline(fr.file, l3.pos)
                      rec == Record(l2.len, l4.len, id, "fwd")
                  IN  FillLoop([fr EXCEPT !.pos = l4.pos,
                                          !.read_buffer = Append(@, rec)], n - 1)

\* The outcomes of fill_read_buf: it returns, or it raises the exception exc
\* with the message msg and leaves the reader as it was.  The first readline of
\* the loop raises ValueError on a closed file.
Filled(fr) == [fr |-> fr, raised |-> "none", msg |-> ""]
Rejected(fr, exc, msg) == [fr |-> fr, raised |-> exc, msg |-> msg]

\* fill_read_buf whose loop stops one record short.
fill_read_buf_short(fr, to_read_id) ==
    IF to_read_id = None
    THEN Rejected(fr, "TypeError", "'<' not supported")
    ELSE IF to_read_id < 0
    THEN Rejected(fr, "IndexError", "Read ID cannot be negative.")
    ELSE IF to_read_id > fr.limit
    THEN Rejected(fr, "IndexError", "File size limit reached")
    ELSE IF fr.total_reads # None /\ to_read_id >= fr.total_reads
    THEN Rejected(fr, "IndexError", "No more reads left in file")
    ELSE IF fr.closed /\ to_read_id - Len(fr.read_buffer) > 0
    THEN Rejected(fr, "ValueError", "I/O operation on closed file.")
    ELSE Filled(FillLoop(fr, to_read_id - Len(fr.read_buffer)))

\* fill_read_buf without the test of total_reads: it reads on after the end.
fill_read_buf_refetch(fr, to_read_id) ==
    IF to_read_id = None
    THEN Rejected(fr, "TypeError", "'<' not supported")
    ELSE IF to_read_id < 0
    THEN Rejected(fr, "IndexError", "Read ID cannot be negative.")
    ELSE IF to_read_id > fr.limit
    THEN Rejected(fr, "IndexError", "File size limit reached")
    ELSE IF fr.closed /\ to_read_id - Len(fr.read_buffer) + 1 > 0
    THEN Rejected(fr, "ValueError", "I/O operation on closed file.")
    ELSE Filled(FillLoop(fr, to_read_id - Len(fr.read_buffer) + 1))

\* fill_read_buf whose loop runs to_read_id + 1 times whatever is buffered.
fill_read_buf_reread(fr, to_read_id) ==
    IF to_read_id = None
    THEN Rejected(fr, "TypeError", "'<' not supported")
    ELSE IF to_read_id < 0
    THEN Rejected(fr, "IndexError", "Read ID cannot be negative.")
    ELSE IF to_read_id > fr.limit
    THEN Rejected(fr, "IndexError", "File size limit reached")
    ELSE IF fr.total_reads # None /\ to_read_id >= fr.total_reads
    THEN Rejected(fr, "IndexError", "No more reads left in file")
    ELSE IF fr.closed /\ to_read_id + 1 > 0
    THEN Rejected(fr, "ValueError", "I/O operation on closed file.")
    ELSE Filled(FillLoop(fr, to_read_id + 1))

\* fill_read_buf without the test against the ceiling.
fill_read_buf_unlimited(fr, to_read_id) ==
    IF to_read_id = None
    THEN Rejected(fr, "TypeError", "'<' not supported")
    ELSE IF to_read_id < 0
    THEN Rejected(fr, "IndexError", "Read ID cannot be negative.")
    ELSE IF fr.total_reads # None /\ to_read_id >= fr.total_reads
    THEN Rejected(fr, "IndexError", "No more reads left in file")
    ELSE IF fr.closed /\ to_read_id - Len(fr.read_buffer) + 1 > 0
    THEN Rejected(fr, "ValueError", "I/O operation on closed file.")
    ELSE Filled(FillLoop(fr, to_read_id - Len(fr.read_buffer) + 1))

\* fill_read_buf(to_read_id): the reader afterwards and the exception raised.
fill_read_buf(fr, to_read_id) ==
    IF to_read_id = None
    THEN Rejected(fr, "TypeError", "'<' not supported")
    ELSE IF to_read_id < 0
    THEN Rejected(fr, "IndexError", "Read ID cannot be negative.")
    ELSE IF to_read_id > fr.limit
    THEN Rejected(fr, "IndexError", "File size limit reached")
    ELSE IF fr.total_reads # None /\ to_read_id >= fr.total_reads
    THEN Rejected(fr, "IndexError", "No more reads left in file")
    ELSE IF fr.closed /\ to_read_id - Len(fr.read_buffer) + 1 > 0
    THEN Rejected(fr, "ValueError", "I/O operation on closed file.")
    ELSE Filled(FillLoop(fr, to_read_id - Len(fr.read_buffer) + 1))

\* beyond_eof with > for >=
beyond_eof_strict(fr, loc) == fr.total_reads # None /\ loc.read > fr.total_reads

\* beyond_eof(loc), for a location whose read is an integer
beyond_eof(fr, loc) == fr.total_reads # None /\ loc.read >= fr.total_reads

\* ------------------------------------------------------------- render_read
\* The lines render_read builds for the record rec at the width w: the wrapped
\* identifier line "@" + id, then the wrapped sequence, each of its lines led
\* by one blank cell.
RenderLines(rec, w) ==
    LET seq_id == soft_wrap_line(rec.id + 1, w)
        seq == soft_wrap_line(rec.seq, w - 1)
    IN  [i \in 1..Len(seq_id) |->
            [part |-> "id", lead |-> 0, text |-> seq_id[i].text, pad |-> seq_id[i].pad]]
        \o
        [i \in 1..Len(seq) |->
            [part |-> "seq", lead |-> 1, text |-> seq[i].text, pad |-> seq[i].pad]]

\* The position in the list s (from 1) that s[i] of Python reads: a negative
\* index counts from the end, and 0 stands for an IndexError.
ListIndex(s, i) ==
    IF i >= 0 /\ i < Len(s) THEN i + 1
    ELSE IF i < 0 /\ i >= 0 - Len(s) THEN Len(s) + i + 1
    ELSE 0

\* render_read that keeps the lines it builds under the next record's index.
render_read_shifted(fr, read_id) ==
    IF read_id \in DOMAIN fr.segment_cache
    THEN [fr |-> fr, raised |-> "none", lines |-> fr.segment_cache[read_id]]
    ELSE IF ListIndex(fr.read_buffer, read_id) = 0
    THEN [fr |-> fr, raised |-> "IndexError", lines |-> <<>>]
    ELSE LET lines == RenderLines(fr.read_buffer[ListIndex(fr.read_buffer, read_id)],
                                  fr.width)
             cache == [k \in DOMAIN fr.segment_cache \cup {read_id + 1} |->
                          IF k = read_id + 1 THEN lines ELSE fr.segment_cache[k]]
         IN  [fr |-> [fr EXCEPT !.segment_cache = cache], raised |-> "none",
              lines |-> lines]

\* render_read(read_id): the reader afterwards (the cache filled), the
\* exception raised and the lines returned.
render_read(fr, read_id) ==
    IF read_id \in DOMAIN fr.segment_cache
    THEN [fr |-> fr, raised |-> "none", lines |-> fr.segment_cache[read_id]]
    ELSE IF ListIndex(fr.read_buffer, read_id) = 0
    THEN [fr |-> fr, raised |-> "IndexError", lines |-> <<>>]
    ELSE LET lines == RenderLines(fr.read_buffer[ListIndex(fr.read_buffer, read_id)],
                                  fr.width)
             cache == [k \in DOMAIN fr.segment_cache \cup {read_id} |->
                          IF k = read_id THEN lines ELSE fr.segment_cache[k]]
         IN  [fr |-> [fr EXCEPT !.segment_cache = cache], raised |-> "none",
              lines |-> lines]

\* ------------------------------------------------------------- virtual_loc_change
\* The outcome of one call: the reader afterwards, the exception raised, the
\* location returned, and of the recursion under the call: the number of
\* invocations of virtual_loc_change (this one included) and whether every
\* recursive invocation got a relative change strictly nearer 0 than its caller's.
Return(fr, loc) ==
    [fr |-> fr, raised |-> "none", ret |-> loc, calls |-> 1, shrinks |-> TRUE]
Raise(fr, exc) ==
    [fr |-> fr, raised |-> exc, ret |-> ReadLineLocation(None, None, exc),
     calls |-> 1, shrinks |-> TRUE]

Abs(n) == IF n < 0 THEN 0 - n ELSE n

\* return self.virtual_loc_change(new_loc, residual): the outcome of the
\* recursive call sub, made with residual by a call that got relative_change.
Recursed(sub, relative_change, residual) ==
    [sub EXCEPT !.calls = @ + 1,
                !.shrinks = @ /\ Abs(residual) < Abs(relative_change)]

\* The location one past the last line of the record before loc's.
PreviousReadEnd_Past(loc, new_read) == DataLoc(loc.read - 1, Len(new_read))

\* ReadLineLocation(loc.read - 1, len(new_read) - 1): the last line of the
\* record before loc's, whose rendered lines are new_read.
PreviousReadEnd(loc, new_read) == DataLoc(loc.read - 1, Len(new_read) - 1)

\* The backward residual without the line the boundary takes.
BackwardResidual_NoStep(new_line) == new_line

\* The relative change passed on into the previous record: new_line + 1.
BackwardResidual(new_line) == new_line + 1

\* The forward residual without the lines of the record left behind.
ForwardResidual_Whole(new_line, lines_in_current_read) == new_line

\* The forward residual with a line taken for the boundary.
ForwardResidual_Step(new_line, lines_in_current_read) ==
    new_line - lines_in_current_read - 1

\* The relative change passed on into the next record.
ForwardResidual(new_line, lines_in_current_read) == new_line - lines_in_current_read

RECURSIVE virtual_loc_change(_, _, _)
virtual_loc_change(fr0, loc, relative_change) ==
    LET filled == fill_read_buf(fr0, loc.read)
        fr1 == filled.fr
    IN  IF filled.raised # "none" THEN Raise(fr1, filled.raised)
        ELSE IF beyond_eof(fr1, loc) THEN Return(fr1, EofLoc)
        ELSE IF loc.read < 0 THEN Return(fr1, StartLoc)
        ELSE
        LET cur == render_read(fr1, loc.read)
            fr2 == cur.fr
            lines_in_current_read == Len(cur.lines)
            new_line == loc.line + relative_change
        IN  IF cur.raised # "none" THEN Raise(fr2, cur.raised)
            ELSE IF relative_change = 0 THEN Return(fr2, loc)
            ELSE IF new_line < 0
            THEN IF loc.read = 0 THEN Return(fr2, StartLoc)
                 ELSE LET prev == render_read(fr2, loc.read - 1)
                          new_loc == PreviousReadEnd(loc, prev.lines)
                      IN  IF prev.raised # "none" THEN Raise(prev.fr, prev.raised)
                          ELSE Recursed(virtual_loc_change(prev.fr, new_loc,
                                                           BackwardResidual(new_line)),
                                        relative_change, BackwardResidual(new_line))
            ELSE IF new_line >= lines_in_current_read
            THEN IF beyond_eof(fr2, DataLoc(loc.read + 1, 0)) THEN Return(fr2, EofLoc)
                 ELSE Recursed(virtual_loc_change(fr2, DataLoc(loc.read + 1, 0),
                                   ForwardResidual(new_line, lines_in_current_read)),
                               relative_change,
                               ForwardResidual(new_line, lines_in_current_read))
            ELSE Return(fr2, DataLoc(loc.read, new_line))

\* rerender that sets the width and keeps the cache.
rerender_keep(fr, new_width) == [fr EXCEPT !.width = new_width - GutterWidth]

\* rerender(new_width)
rerender(fr, new_width) ==
    [fr EXCEPT !.width = new_width - GutterWidth, !.segment_cache = <<>>]

\* ------------------------------------------------------------- render_segment
\* read[loc.line], read being the outcome of render_read(loc.read)
SegmentAt(read, loc) ==
    IF read.raised # "none"
    THEN [fr |-> read.fr, raised |-> read.raised, ret |-> <<>>]
    ELSE IF ListIndex(read.lines, loc.line) = 0
    THEN [fr |-> read.fr, raised |-> "IndexError", ret |-> <<>>]
    ELSE [fr |-> read.fr, raised |-> "none",
          ret |-> read.lines[ListIndex(read.lines, loc.line)]]

\* render_segment(loc)
render_segment(fr, loc) == SegmentAt(render_read(fr, loc.read), loc)

\* ------------------------------------------------------------- PagerWidget
\* The pager's fields as one value pg, and the outcome of one of its handlers:
\* the reader and the pager afterwards and the exception that ended it.
PagerDone(fr, pg) == [fr |-> fr, pg |-> pg, raised |-> "none"]
PagerRaised(fr, pg, exc) == [fr |-> fr, pg |-> pg, raised |-> exc]

\* on_resize, the widget's size being new_width by new_height
on_resize(fr, pg, new_width, new_height) ==
    LET cursor == IF pg.cursor_loc >= new_height THEN new_height - 1 ELSE pg.cursor_loc
    IN  PagerDone(rerender(fr, new_width),
                  [pg EXCEPT !.cursor_loc = cursor, !.height = new_height])

\* scroll_by at an edge of the viewport or without the cursor: the viewport
\* moves to new_loc, the outcome of virtual_loc_change(viewport_loc, lines).
ScrollViewport(pg, new_loc, lines, move_cursor) ==
    IF new_loc.raised # "none"
    THEN PagerRaised(new_loc.fr, pg, new_loc.raised)
    ELSE IF new_loc.ret.type = "data"
    THEN PagerDone(new_loc.fr, [pg EXCEPT !.viewport_loc = new_loc.ret])
    ELSE IF ~move_cursor /\ lines < 0
    THEN PagerDone(new_loc.fr, [pg EXCEPT !.cursor_loc = 0])
    ELSE PagerDone(new_loc.fr, pg)

\* scroll_by within the viewport: the cursor moves unless new_loc, the outcome
\* of virtual_loc_change(viewport_loc, cursor_loc + lines), is Eof.
MoveCursor(pg, new_loc, lines) ==
    IF new_loc.raised # "none"
    THEN PagerRaised(new_loc.fr, pg, new_loc.raised)
    ELSE IF new_loc.ret.type # "eof"
    THEN PagerDone(new_loc.fr, [pg EXCEPT !.cursor_loc = @ + lines])
    ELSE PagerDone(new_loc.fr, pg)

\* scroll_by(lines, move_cursor)
scroll_by(fr, pg, lines, move_cursor) ==
    LET is_at_top == pg.cursor_loc = 0 /\ lines < 0
        is_at_bottom == pg.cursor_loc >= pg.height - 1 /\ lines > 0
    IN  IF is_at_top \/ is_at_bottom \/ ~move_cursor
        THEN ScrollViewport(pg, virtual_loc_change(fr, pg.viewport_loc, lines),
                            lines, move_cursor)
        ELSE MoveCursor(pg, virtual_loc_change(fr, pg.viewport_loc,
                                               pg.cursor_loc + lines), lines)

\* The outcome of render_line: what it returns ("blank", "eof" or "line").
Rendered(fr, exc, strip) == [fr |-> fr, raised |-> exc, ret |-> strip]

\* render_line from cursor_pos on
RenderCursor(cursor_pos) ==
    IF cursor_pos.raised # "none"
    THEN Rendered(cursor_pos.fr, cursor_pos.raised, "none")
    ELSE Rendered(cursor_pos.fr, "none", "line")

\* render_line from content_segments on
RenderContent(pg, content_segments) ==
    IF content_segments.raised # "none"
    THEN Rendered(content_segments.fr, content_segments.raised, "none")
    ELSE RenderCursor(virtual_loc_change(content_segments.fr, pg.viewport_loc,
                                         pg.cursor_loc))

\* render_line from line_loc on
RenderAt(pg, line_loc) ==
    IF line_loc.raised # "none"
    THEN Rendered(line_loc.fr, line_loc.raised, "none")
    ELSE IF line_loc.ret.type = "start"
    THEN Rendered(line_loc.fr, "none", "blank")
    ELSE IF line_loc.ret.type = "eof"
    THEN Rendered(line_loc.fr, "none", "eof")
    ELSE RenderContent(pg, render_segment(line_loc.fr, line_loc.ret))

\* render_line(y)
render_line(fr, pg, y) == RenderAt(pg, virtual_loc_change(fr, pg.viewport_loc, y))

\* close() that closes the file whatever its state.
close_unguarded(fr) ==
    [fr |-> [fr EXCEPT !.closed = TRUE], released |-> TRUE, raised |-> "none"]

\* close(): the reader afterwards, whether self._file.close() ran, and the
\* exception raised.  self._file is a file object, which is true.
close(fr) ==
    IF ~fr.closed
    THEN [fr |-> [fr EXCEPT !.closed = TRUE], released |-> TRUE, raised |-> "none"]
    ELSE [fr |-> fr, released |-> FALSE, raised |-> "none"]

\* ------------------------------------------------------------- the calls
NoCall == [op |-> "init"]
NoWrap == [line |-> 0, width |-> 0, applied |-> FALSE, out |-> <<>>]

\* The files of the model: up to MaxRecords records.  An identifier of length 0
\* is a blank identifier line; the reader reads nothing after one, so it is the
\* last record of a file of the model.
RecordKinds == [id : IdLens, seq : SeqLens]
Files == {f \in UNION {[1..n -> RecordKinds] : n \in 0..MaxRecords} :
             \A i \in 1..Len(f) : f[i].id = 0 => (i = Len(f) /\ f[i].seq = 1)}

\* The locations and relative changes the calls are made with.
Locs == {DataLoc(r, l) : r \in (0 - 1)..MaxRecords, l \in 0..MaxLine}
            \cup {StartLoc, EofLoc}
Deltas == (0 - MaxDelta)..MaxDelta
\* The record indices fill_read_buf is called with: those about the file, the
\* ceiling and the index past the ceiling.
ReadIds == ((0 - 1)..MaxRecords) \cup {ReadIdLimit, ReadIdLimit + 1}

\* FileReader.__init__ on the file f
NewReader(f) ==
    /\ file = f
    /\ pos = 0
    /\ read_buffer = <<>>
    /\ width = InitialWidth
    /\ segment_cache = <<>>
    /\ total_reads = None
    /\ closed = FALSE
    /\ closes = 0
    /\ last = NoCall

SetReader(fr) ==
    /\ file' = fr.file
    /\ pos' = fr.pos
    /\ read_buffer' = fr.read_buffer
    /\ width' = fr.width
    /\ segment_cache' = fr.segment_cache
    /\ total_reads' = fr.total_reads
    /\ closed' = fr.closed
    /\ limit' = fr.limit

\* PagerWidget's reactive fields as declared, before the first layout.
NewPager ==
    /\ viewport_loc = DataLoc(0, 0)
    /\ cursor_loc = 0
    /\ height = 0

Init ==
    /\ \E f \in Files : NewReader(f)
    /\ limit = ReadIdLimit
    /\ NewPager
    /\ wrap = NoWrap

\* a call of fill_read_buf(to_read_id)
FillReadBuf(to_read_id) ==
    LET r == fill_read_buf(Reader, to_read_id)
    IN  /\ SetReader(r.fr)
        /\ last' = [op |-> "fill_read_buf"]
        /\ UNCHANGED <<closes, wrap, viewport_loc, cursor_loc, height>>

\* a call of virtual_loc_change(loc, relative_change)
VirtualLocChange(loc, relative_change) ==
    LET r == virtual_loc_change(Reader, loc, relative_change)
    IN  /\ SetReader(r.fr)
        /\ last' = [op |-> "virtual_loc_change"]
        /\ UNCHANGED <<closes, wrap, viewport_loc, cursor_loc, height>>

\* a call of rerender(new_width)
Rerender(new_width) ==
    /\ SetReader(rerender(Reader, new_width))
    /\ last' = [op |-> "rerender"]
    /\ UNCHANGED <<closes, wrap, viewport_loc, cursor_loc, height>>

Next ==
    \/ \E k \in ReadIds : FillReadBuf(k)
    \/ \E loc \in Locs, d \in Deltas : VirtualLocChange(loc, d)
    \/ \E w \in TermWidths : Rerender(w)

Spec == Init /\ [][Next]_vars

\* ------------------------------------------------------------- one file
\* The reader on a file of two records, of sequence lengths 25 and 5, resized
\* to the width 10, and the calls made on it.
ScenarioFile == <<[id |-> 2, seq |-> 25], [id |-> 2, seq |-> 5]>>
ScenarioTermWidths == {11, 12, 13, 14, 16, 19}
ScenarioLocs == {DataLoc(r, l) : r \in 0..2, l \in 0..3}
ScenarioDeltas == {0 - 1, 0, 1, 4, 100}

InitScenario ==
    /\ NewReader(ScenarioFile)
    /\ limit = ReadIdLimit
    /\ NewPager
    /\ wrap = NoWrap

NextScenario ==
    \/ \E k \in 0..2 : FillReadBuf(k)
    \/ \E loc \in ScenarioLocs, d \in ScenarioDeltas : VirtualLocChange(loc, d)
    \/ \E w \in ScenarioTermWidths : Rerender(w)

SpecScenario == InitScenario /\ [][NextScenario]_vars

\* ------------------------------------------------------------- closing the reader
\* a call of close(), as FuzzlessApp.on_unmount makes
Close ==
    LET r == close(Reader)
    IN  /\ SetReader(r.fr)
        /\ closes' = IF r.released THEN closes + 1 ELSE closes
        /\ last' = [op |-> "close", released |-> r.released]
        /\ UNCHANGED <<wrap, viewport_loc, cursor_loc, height>>

\* __del__(), which calls close()
Del ==
    LET r == close(Reader)
    IN  /\ SetReader(r.fr)
        /\ closes' = IF r.released THEN closes + 1 ELSE closes
        /\ last' = [op |-> "__del__", released |-> r.released]
        /\ UNCHANGED <<wrap, viewport_loc, cursor_loc, height>>

\* The reader filled and closed in any order.
NextClose ==
    \/ \E k \in ReadIds : FillReadBuf(k)
    \/ Close
    \/ Del

SpecClose == Init /\ [][NextClose]_vars

\* ------------------------------------------------------------- the pager
\* The pager object as one value.
Pager == [viewport_loc |-> viewport_loc, cursor_loc |-> cursor_loc, height |-> height]

SetPager(pg) ==
    /\ viewport_loc' = pg.viewport_loc
    /\ cursor_loc' = pg.cursor_loc
    /\ height' = pg.height

\* The terminal is resized to new_width by new_height.
OnResize(new_width, new_height) ==
    LET r == on_resize(Reader, Pager, new_width, new_height)
    IN  /\ SetReader(r.fr)
        /\ SetPager(r.pg)
        /\ last' = [op |-> "on_resize"]
        /\ UNCHANGED <<closes, wrap>>

\* The keys bound to the app's scrolling handlers, and what each handler passes
\* to scroll_by: action_cursor_up, action_cursor_down, action_pg_down and
\* action_pg_up.
Keys == {"cursor_up", "cursor_down", "pg_down", "pg_up"}
KeyLines(pg, key) ==
    CASE key = "cursor_up" -> 0 - 1
      [] key = "cursor_down" -> 1
      [] key = "pg_down" -> pg.height \div 2
      [] key = "pg_up" -> 0 - (pg.height \div 2)
KeyMovesCursor(key) == key \in {"cursor_up", "cursor_down"}

\* The handler of the key runs: it calls scroll_by(lines, move_cursor).  Keys
\* reach the pager once it is laid out (height > 0).
KeyPress(key) ==
    LET r == scroll_by(Reader, Pager, KeyLines(Pager, key), KeyMovesCursor(key))
    IN  /\ height > 0
        /\ SetReader(r.fr)
        /\ SetPager(r.pg)
        /\ last' = [op |-> key, raised |-> r.raised]
        /\ UNCHANGED <<closes, wrap>>

\* The repaint that refresh() asks for draws line y of the widget.
RenderLine(y) ==
    LET r == render_line(Reader, Pager, y)
    IN  /\ SetReader(r.fr)
        /\ last' = [op |-> "render_line", raised |-> r.raised]
        /\ UNCHANGED <<closes, wrap, viewport_loc, cursor_loc, height>>

NextPager ==
    \/ \E w \in TermWidths, h \in 1..MaxHeight : OnResize(w, h)
    \/ \E key \in Keys : KeyPress(key)
    \/ \E y \in 0..(height - 1) : RenderLine(y)

SpecPager == Init /\ [][NextPager]_vars

\* ------------------------------------------------------------- the keys
\* The first layout of the pager: the resize event it gets when it is mounted.
FirstLayout(new_width, new_height) ==
    /\ height = 0
    /\ OnResize(new_width, new_height)

\* The pager laid out once and then driven by the scrolling keys alone, with
\* the repaints they ask for.
NextKeys ==
    \/ \E w \in TermWidths, h \in 1..MaxHeight : FirstLayout(w, h)
    \/ \E key \in Keys : KeyPress(key)
    \/ \E y \in 0..(height - 1) : RenderLine(y)

SpecKeys == Init /\ [][NextKeys]_vars

\* ------------------------------------------------------------- the wrap cache
\* a call of render_segment(loc)
RenderSegment(loc) ==
    LET r == render_segment(Reader, loc)
    IN  /\ SetReader(r.fr)
        /\ last' = [op |-> "render_segment", raised |-> r.raised]
        /\ UNCHANGED <<closes, wrap, viewport_loc, cursor_loc, height>>

\* The Data locations render_segment is called with: those of a record index
\* from 0 on, buffered or not, with a line the record has or not.
SegmentLocs == {loc \in Locs : loc.type = "data" /\ loc.read >= 0}

\* The reader under moves, render_segment calls and width changes in any order.
NextCache ==
    \/ \E loc \in Locs, d \in Deltas : VirtualLocChange(loc, d)
    \/ \E loc \in SegmentLocs : RenderSegment(loc)
    \/ \E w \in TermWidths : Rerender(w)

SpecCache == Init /\ [][NextCache]_vars

\* ------------------------------------------------------------- the ceiling
\* The reader with its ceiling scaled from ReadIdLimit down to ScaledLimit, on
\* files of up to ScaledLimit + 2 one-line records: files that end below, at
\* and beyond the ceiling.
CeilingFiles ==
    {[i \in 1..n |-> [id |-> 1, seq |-> 1]] : n \in 0..(ScaledLimit + 2)}
CeilingReadIds == (0 - 1)..(ScaledLimit + 2)
CeilingLocs == {DataLoc(r, l) : r \in 0..(ScaledLimit + 2), l \in 0..1}

InitCeiling ==
    /\ \E f \in CeilingFiles : NewReader(f)
    /\ limit = ScaledLimit
    /\ NewPager
    /\ wrap = NoWrap

NextCeiling ==
    \/ \E k \in CeilingReadIds : FillReadBuf(k)
    \/ \E loc \in CeilingLocs, d \in Deltas : VirtualLocChange(loc, d)
    \/ \E w \in TermWidths : Rerender(w)

SpecCeiling == InitCeiling /\ [][NextCeiling]_vars

\* ------------------------------------------------------------- soft_wrap_line alone
InitWrap ==
    /\ NewReader(<<>>)
    /\ limit = ReadIdLimit
    /\ NewPager
    /\ wrap \in [line : 0..MaxTextLen, width : 1..MaxWrapWidth,
                 applied : {FALSE}, out : {<<>>}]

ApplySoftWrap ==
    /\ ~wrap.applied
    /\ wrap' = [wrap EXCEPT !.applied = TRUE, !.out = soft_wrap_line(wrap.line, wrap.width)]
    /\ UNCHANGED <<file, pos, read_buffer, width, segment_cache, total_reads, closed,
                   limit, closes, last, viewport_loc, cursor_loc, height>>

NextWrap == ApplySoftWrap

SpecWrap == InitWrap /\ [][NextWrap]_vars

\* ------------------------------------------------------------- the claims
\* The number of records of the file f: those before its first blank identifier.
TotalRecords(f) ==
    IF \E i \in 1..Len(f) : f[i].id = 0
    THEN (CHOOSE i \in 1..Len(f) : f[i].id = 0 /\ \A j \in 1..(i - 1) : f[j].id # 0) - 1
    ELSE Len(f)

\* The number of display lines of record r of the file at the current width.
LineCount(r) == Len(RenderLines(Record(file[r + 1].seq, file[r + 1].seq, file[r + 1].id, "fwd"), width))

\* The valid Data locations of the file at the current width.
ValidLocs ==
    {loc \in Locs : /\ loc.type = "data"
                    /\ loc.read \in 0..(TotalRecords(file) - 1)
                    /\ loc.line \in 0..(LineCount(loc.read) - 1)}

\* The display lines from the location loc to the end of the file, loc's included.
RECURSIVE LinesFrom(_)
LinesFrom(r) == IF r >= TotalRecords(file) THEN 0 ELSE LineCount(r) + LinesFrom(r + 1)
LinesRemaining(loc) ==
    IF loc.read >= TotalRecords(file) THEN 0 ELSE LinesFrom(loc.read) - loc.line

IsLocation(r) == r.raised = "none" /\ r.ret.type \in {"start", "eof", "data"}

\* C1: virtual_loc_change never raises: for every location and every relative
\* change, in every reachable state of the reader, it returns Start, Eof or a
\* Data location whose line lies within that record's wrapped lines.
C1_MoveNeverRaises ==
    \A loc \in Locs, d \in Deltas :
        LET r == virtual_loc_change(Reader, loc, d)
        IN  /\ IsLocation(r)
            /\ r.ret.type = "data" =>
                   /\ render_read(r.fr, r.ret.read).raised = "none"
                   /\ r.ret.line \in 0..(Len(render_read(r.fr, r.ret.read).lines) - 1)

\* C2: once total_reads is known, virtual_loc_change on a location whose read
\* is at or beyond total_reads returns Eof for every relative change, on every
\* call; the IndexError of fill_read_buf does not reach the caller.
C2_BeyondTotalIsEof ==
    total_reads # None =>
        \A loc \in Locs, d \in Deltas :
            (loc.type = "data" /\ loc.read >= total_reads) =>
                LET r == virtual_loc_change(Reader, loc, d)
                IN  r.raised = "none" /\ r.ret = EofLoc

\* C3: virtual_loc_change(loc, 0) returns loc, for every valid Data location
\* and for the Start and Eof sentinels.
C3_MoveZeroIsIdentity ==
    \A loc \in ValidLocs \cup {StartLoc, EofLoc} :
        LET r == virtual_loc_change(Reader, loc, 0)
        IN  r.raised = "none" /\ r.ret = loc

\* C4: additivity.  From a valid Data location, when the move by d1 and the
\* move of its result by d2 both return Data locations, the second equals the
\* move by d1 + d2, made before the two moves or after them.
C4_Additivity ==
    \A loc \in ValidLocs, d1 \in Deltas :
        LET r1 == virtual_loc_change(Reader, loc, d1)
        IN  (IsLocation(r1) /\ r1.ret.type = "data") =>
            \A d2 \in Deltas :
                LET r2 == virtual_loc_change(r1.fr, r1.ret, d2)
                IN  (IsLocation(r2) /\ r2.ret.type = "data") =>
                        /\ virtual_loc_change(Reader, loc, d1 + d2).ret = r2.ret
                        /\ virtual_loc_change(r2.fr, loc, d1 + d2).ret = r2.ret

\* C4's case: virtual_loc_change has run, and here a move forward across a
\* record boundary followed by a move backward across it lands where the move
\* by the sum lands, on a record not buffered yet when the moves start.
C4_Witness ==
    /\ last.op = "virtual_loc_change"
    /\ \E loc \in ValidLocs, d1 \in Deltas, d2 \in Deltas :
           LET r1 == virtual_loc_change(Reader, loc, d1)
               r2 == virtual_loc_change(r1.fr, r1.ret, d2)
           IN  /\ d1 > 0 /\ d2 < 0 /\ d1 + d2 > 0
               /\ r1.ret.type = "data" /\ r2.ret.type = "data"
               /\ r1.ret.read = loc.read + 2
               /\ r2.ret.read = loc.read + 1
               /\ r1.ret.read >= Len(read_buffer)
               /\ virtual_loc_change(Reader, loc, d1 + d2).ret = r2.ret

\* C5: round trip.  From a valid Data location, a move forward by k that does
\* not return Eof, followed by a move by -k, returns the location.
C5_RoundTrip ==
    \A loc \in ValidLocs, k \in 0..MaxDelta :
        LET r1 == virtual_loc_change(Reader, loc, k)
        IN  (IsLocation(r1) /\ r1.ret.type # "eof") =>
                LET r2 == virtual_loc_change(r1.fr, r1.ret, 0 - k)
                IN  r2.raised = "none" /\ r2.ret = loc

\* C5's case: virtual_loc_change has run, and here a move forward crosses two
\* record boundaries and the move back returns to the origin.
C5_Witness ==
    /\ last.op = "virtual_loc_change"
    /\ \E loc \in ValidLocs, k \in 1..MaxDelta :
           LET r1 == virtual_loc_change(Reader, loc, k)
           IN  /\ r1.ret.type = "data"
               /\ r1.ret.read = loc.read + 2
               /\ virtual_loc_change(r1.fr, r1.ret, 0 - k).ret = loc

\* C6: from Data(0, 0) of a file with a record, every negative relative change
\* returns Start; and once total_reads is known, from every Data location (a
\* valid one, or one at or beyond total_reads) every relative change of at least
\* the display lines remaining up to the end of the file returns Eof.
C6_SentinelsAtTheEnds ==
    /\ TotalRecords(file) > 0 =>
           \A d \in Deltas :
               d < 0 => LET r == virtual_loc_change(Reader, DataLoc(0, 0), d)
                        IN  r.raised = "none" /\ r.ret = StartLoc
    /\ total_reads # None =>
           \A loc \in Locs, d \in Deltas :
               (/\ loc.type = "data"
                /\ loc \in ValidLocs \/ loc.read >= total_reads
                /\ d >= LinesRemaining(loc)) =>
                   LET r == virtual_loc_change(Reader, loc, d)
                   IN  r.raised = "none" /\ r.ret = EofLoc

\* C7, as claimed: at the width 10, record 0 of the two-record file takes 3
\* display lines and record 1 takes 2, so the move by 4 from Data(0, 0) returns
\* Data(1, 1), the move by 100 from Data(1, 1) returns Eof and the move by -1
\* from Data(0, 0) returns Start.
C7_ScenarioAsClaimed ==
    width = 10 =>
        /\ LineCount(0) = 3
        /\ LineCount(1) = 2
        /\ virtual_loc_change(Reader, DataLoc(0, 0), 4).ret = DataLoc(1, 1)
        /\ virtual_loc_change(Reader, DataLoc(1, 1), 100).ret = EofLoc
        /\ virtual_loc_change(Reader, DataLoc(0, 0), 0 - 1).ret = StartLoc

\* C7, amended: at the width 10, record 0 takes 4 display lines (its identifier
\* line and 3 lines of sequence) and record 1 takes 2, so the move by 4 from
\* Data(0, 0) returns Data(1, 0): the first line of record 1, its identifier
\* line.  The moves to Eof and to Start are as claimed.
C7_Scenario ==
    width = 10 =>
        /\ LineCount(0) = 4
        /\ LineCount(1) = 2
        /\ virtual_loc_change(Reader, DataLoc(0, 0), 4).ret = DataLoc(1, 0)
        /\ virtual_loc_change(Reader, DataLoc(1, 1), 100).ret = EofLoc
        /\ virtual_loc_change(Reader, DataLoc(0, 0), 0 - 1).ret = StartLoc

\* C7's case: at the width 10 a move has been made, both records are buffered
\* and rendered, and the end of the stream has been found.
C7_Witness ==
    /\ width = 10
    /\ last.op = "virtual_loc_change"
    /\ Len(read_buffer) = 2
    /\ DOMAIN segment_cache = {0, 1}
    /\ Len(segment_cache[0]) = 4
    /\ total_reads = 2

\* ceil(a / b) for b > 0
CeilDiv(a, b) == (a + b - 1) \div b

RECURSIVE SumText(_, _)
SumText(out, n) == IF n = 0 THEN 0 ELSE out[n].text + SumText(out, n - 1)

\* C8: soft_wrap_line cuts the text at every multiple of the width: a text of
\* L <= width cells gives one fragment; a longer one gives ceil(L / width)
\* fragments, all but the last width cells wide and the last
\* L - width * (ceil(L / width) - 1) cells wide before padding, so that no cell
\* of the text is dropped.
C8_WrapCutsAtEveryMultiple ==
    wrap.applied =>
        LET L == wrap.line
            w == wrap.width
            n == Len(wrap.out)
        IN  /\ L <= w => n = 1
            /\ L > w => /\ n = CeilDiv(L, w)
                        /\ \A i \in 1..(n - 1) : wrap.out[i].text = w
                        /\ wrap.out[n].text = L - w * (CeilDiv(L, w) - 1)
            /\ SumText(wrap.out, n) = L

\* C9, as claimed: when fill_read_buf(k) finishes, by returning or by raising,
\* the buffer holds at least k + 1 records, or total_reads is set and
\* k >= total_reads, and in the second case nothing was read from the stream.
C9_EnsureAsClaimed ==
    \A k \in 0..MaxRecords :
        LET r == fill_read_buf(Reader, k)
        IN  \/ Len(r.fr.read_buffer) >= k + 1
            \/ /\ r.fr.total_reads # None
               /\ k >= r.fr.total_reads
               /\ r.fr.pos = pos

\* C9, amended: when fill_read_buf(k) finishes, the buffer holds at least k + 1
\* records, or total_reads is set and k >= total_reads; when total_reads was
\* set before the call and k >= total_reads, the call raises and leaves the
\* reader as it was, nothing read.
C9_EnsurePostcondition ==
    \A k \in 0..MaxRecords :
        LET r == fill_read_buf(Reader, k)
        IN  /\ \/ Len(r.fr.read_buffer) >= k + 1
               \/ r.fr.total_reads # None /\ k >= r.fr.total_reads
            /\ r.raised = "none" => r.fr.pos >= pos
            /\ (total_reads # None /\ k >= total_reads) =>
                   r.raised = "IndexError" /\ r.fr = Reader

\* C9's case: fill_read_buf has found the end of a stream that holds records,
\* so that a call for a record further on raises and a call for a buffered
\* record returns.
C9_Witness ==
    /\ last.op = "fill_read_buf"
    /\ total_reads # None
    /\ total_reads > 0
    /\ fill_read_buf(Reader, total_reads).raised = "IndexError"
    /\ fill_read_buf(Reader, total_reads - 1).raised = "none"

\* C10: the end-of-stream latch.  Once total_reads is set it equals the length
\* of the buffer, and no call changes it, the buffer or the stream position.
C10_EndOfStreamLatch ==
    /\ [](total_reads # None => total_reads = Len(read_buffer))
    /\ [][total_reads # None =>
              /\ total_reads' = total_reads
              /\ read_buffer' = read_buffer
              /\ pos' = pos]_vars

\* C10's case: total_reads is set, by a blank identifier line that has lines
\* after it in the stream and records before it, and a move has been made.
C10_Witness ==
    /\ total_reads # None
    /\ total_reads > 0
    /\ pos < 4 * Len(file)
    /\ last.op = "virtual_loc_change"
    /\ DOMAIN segment_cache # {}

\* C11: fill_read_buf is idempotent on the buffer.  A second fill_read_buf(k)
\* right after the first, and fill_read_buf(j) for every j below the buffer's
\* length, leave read_buffer, total_reads and the stream position as they were:
\* no buffered record is read again or replaced.
C11_EnsureIdempotent ==
    /\ \A k \in ReadIds :
           LET once == fill_read_buf(Reader, k)
               twice == fill_read_buf(once.fr, k)
           IN  /\ twice.fr.read_buffer = once.fr.read_buffer
               /\ twice.fr.total_reads = once.fr.total_reads
               /\ twice.fr.pos = once.fr.pos
    /\ \A j \in 0..(Len(read_buffer) - 1) :
           LET again == fill_read_buf(Reader, j)
           IN  /\ again.fr.read_buffer = read_buffer
               /\ again.fr.total_reads = total_reads
               /\ again.fr.pos = pos

\* fill_read_buf has buffered two records of a file whose end is not yet seen.
C11_Witness ==
    /\ last.op = "fill_read_buf"
    /\ Len(read_buffer) >= 2
    /\ total_reads = None

\* C12: the bounds errors of fill_read_buf.  A negative index is rejected with
\* the error "Read ID cannot be negative." and an index beyond the ceiling with
\* the error "File size limit reached"; both leave the buffer, total_reads and
\* the stream position as they were.
C12_BoundsErrors ==
    /\ \A k \in {0 - 2, 0 - 1} :
           LET r == fill_read_buf(Reader, k)
           IN  /\ r.raised = "IndexError"
               /\ r.msg = "Read ID cannot be negative."
               /\ r.fr.read_buffer = read_buffer
               /\ r.fr.total_reads = total_reads
               /\ r.fr.pos = pos
    /\ \A k \in {limit + 1, limit + 2} :
           LET r == fill_read_buf(Reader, k)
           IN  /\ r.raised = "IndexError"
               /\ r.msg = "File size limit reached"
               /\ r.fr.read_buffer = read_buffer
               /\ r.fr.total_reads = total_reads
               /\ r.fr.pos = pos

\* The two rejections in a state where a call within the bounds would read on:
\* a record is buffered and the stream holds more.
C12_Witness ==
    /\ last.op = "fill_read_buf"
    /\ Len(read_buffer) = 1
    /\ total_reads = None
    /\ fill_read_buf(Reader, 0 - 1).raised = "IndexError"
    /\ fill_read_buf(Reader, limit + 1).raised = "IndexError"
    /\ Len(fill_read_buf(Reader, limit).fr.read_buffer) > 1

\* C13: rerender empties the whole segment cache and leaves the record buffer,
\* total_reads and the stream position as they were.
C13_RerenderFrame ==
    [][last'.op = "rerender" =>
          /\ segment_cache' = <<>>
          /\ read_buffer' = read_buffer
          /\ total_reads' = total_reads
          /\ pos' = pos]_vars

\* rerender has run on a reader that holds records and has seen the end of the
\* stream.
C13_Witness ==
    /\ last.op = "rerender"
    /\ segment_cache = <<>>
    /\ Len(read_buffer) >= 2
    /\ total_reads = Len(read_buffer)
    /\ width # InitialWidth

\* C14: the file is closed exactly once.  The first close() closes it; every
\* later close(), the one __del__ makes included, changes nothing and raises
\* nothing.
C14_ClosedOnce ==
    /\ [](closes <= 1 /\ (closed <=> closes = 1))
    /\ [](close(Reader).raised = "none")
    /\ [][closed => UNCHANGED <<closed, closes, file, pos, read_buffer, total_reads>>]_vars
    /\ [][(~closed /\ last'.op \in {"close", "__del__"}) => closed' /\ closes' = 1]_vars

\* __del__ has run on a reader that close() had closed, and closed nothing.
C14_Witness ==
    /\ closed
    /\ closes = 1
    /\ last.op = "__del__"
    /\ ~last.released
    /\ Len(read_buffer) >= 1

\* C15: virtual_loc_change on a Data location whose read is negative returns
\* Start, for every relative change.
C15_NegativeIsStart ==
    \A loc \in Locs, d \in Deltas :
        (loc.type = "data" /\ loc.read < 0) =>
            LET r == virtual_loc_change(Reader, loc, d)
            IN  r.raised = "none" /\ r.ret = StartLoc

\* C16: crossing a record boundary takes exactly one unit of the relative
\* change.  From the last line of record r, +1 returns the first line of record
\* r + 1 when the file has one; from the first line of record r > 0, -1 returns
\* the last line of record r - 1.
C16_BoundaryTakesOne ==
    \A r \in 0..(TotalRecords(file) - 1) :
        /\ r + 1 < TotalRecords(file) =>
               LET fwd == virtual_loc_change(Reader, DataLoc(r, LineCount(r) - 1), 1)
               IN  fwd.raised = "none" /\ fwd.ret = DataLoc(r + 1, 0)
        /\ r > 0 =>
               LET bwd == virtual_loc_change(Reader, DataLoc(r, 0), 0 - 1)
               IN  bwd.raised = "none" /\ bwd.ret = DataLoc(r - 1, LineCount(r - 1) - 1)

\* Both crossings between a record of three display lines and its successor,
\* after a call of virtual_loc_change.
C16_Witness ==
    /\ last.op = "virtual_loc_change"
    /\ TotalRecords(file) >= 2
    /\ LineCount(0) = 3
    /\ virtual_loc_change(Reader, DataLoc(0, 2), 1).ret = DataLoc(1, 0)
    /\ virtual_loc_change(Reader, DataLoc(1, 0), 0 - 1).ret = DataLoc(0, 2)

\* C17: every Data location the system holds or produces has its line within
\* the wrapped lines of its record at the current width: the pager's
\* viewport_loc and every Data result of virtual_loc_change from it, after any
\* interleaving of scrolls, pages and resizes, so that render_segment (and with
\* it render_line) never indexes out of range.
C17_LineIndexInRange ==
    /\ viewport_loc.read < TotalRecords(file) =>
           viewport_loc.line \in 0..(LineCount(viewport_loc.read) - 1)
    /\ \A d \in 0..MaxHeight :
           LET r == virtual_loc_change(Reader, viewport_loc, d)
           IN  (r.raised = "none" /\ r.ret.type = "data") =>
                   /\ r.ret.line \in 0..(LineCount(r.ret.read) - 1)
                   /\ render_segment(r.fr, r.ret).raised = "none"
    /\ \A y \in 0..(height - 1) :
           viewport_loc.read < TotalRecords(file) =>
               render_line(Reader, Pager, y).raised = "none"

\* The buffer holds the file's first records in order: record i is built from
\* the stream's lines 4i..4i+3.
BufferIsPrefix ==
    /\ Len(read_buffer) <= TotalRecords(file)
    /\ \A i \in 1..Len(read_buffer) :
           read_buffer[i] = Record(file[i].seq, file[i].seq, file[i].id, "fwd")

\* Every step keeps the buffered records and adds records only at the end.
AppendOnly ==
    /\ Len(read_buffer') >= Len(read_buffer)
    /\ SubSeq(read_buffer', 1, Len(read_buffer)) = read_buffer

\* The step in which the blank identifier line is read.
EndFound == total_reads = None /\ total_reads' # None

\* C18 as claimed: the buffer is an in-order prefix of the file's records,
\* records are only appended, and the call that reads the blank identifier line
\* sets total_reads to the buffer's length and appends no record at all.
C18_PrefixAsClaimed ==
    /\ []BufferIsPrefix
    /\ [][AppendOnly]_vars
    /\ [][EndFound => (total_reads' = Len(read_buffer') /\ read_buffer' = read_buffer)]_vars

\* C18: the buffer is an in-order prefix of the file's records, records are
\* only appended, and the call that reads the blank identifier line sets
\* total_reads to the buffer's length and appends nothing from that line on:
\* the buffer then holds exactly the records before it (those the same call read
\* on its way stay), and the stream is at most that one line past them.
C18_BufferIsPrefix ==
    /\ []BufferIsPrefix
    /\ [][AppendOnly]_vars
    /\ [][EndFound =>
              /\ total_reads' = Len(read_buffer')
              /\ Len(read_buffer') = TotalRecords(file)
              /\ pos' \in {4 * Len(read_buffer'), 4 * Len(read_buffer') + 1}]_vars

\* fill_read_buf has read two records and then the blank identifier line.
C18_Witness ==
    /\ last.op = "fill_read_buf"
    /\ total_reads = 2
    /\ Len(read_buffer) = 2
    /\ pos = 9
    /\ Len(file) = 3

\* C19: the ceiling bounds the buffer.  After any sequence of fill_read_buf
\* and virtual_loc_change calls on a file of any length, the buffer never holds
\* more records than the ceiling.
C19_BufferWithinCeiling == Len(read_buffer) <= limit

\* The record boundaries between the location loc and the location ret that
\* virtual_loc_change returned for it: Start lies before record 0, Eof after
\* the file's last record.
BoundariesCrossed(loc, ret) ==
    CASE ret.type = "data" -> Abs(ret.read - loc.read)
      [] ret.type = "start" -> loc.read
      [] ret.type = "eof" -> TotalRecords(file) - 1 - loc.read

\* C20: virtual_loc_change on a valid Data location returns for every relative
\* change; it makes at most one recursive call more than the number of record
\* boundaries it crosses, and every recursive call goes to the neighbouring
\* record with a relative change strictly nearer 0.
C20_RecursionBounded ==
    \A loc \in ValidLocs, d \in Deltas :
        LET r == virtual_loc_change(Reader, loc, d)
        IN  /\ r.raised = "none"
            /\ r.shrinks
            /\ r.calls - 1 <= BoundariesCrossed(loc, r.ret) + 1
            /\ r.calls - 1 <= Abs(d)

\* A move over two boundaries to a Data location in two recursive calls, and a
\* move over one boundary to Eof, not yet found, in two.
C20_Witness ==
    /\ last.op = "virtual_loc_change"
    /\ total_reads = None
    /\ TotalRecords(file) = 3
    /\ LineCount(0) = 2 /\ LineCount(1) = 2 /\ LineCount(2) = 2
    /\ LET far == virtual_loc_change(Reader, DataLoc(0, 1), 3)
           end == virtual_loc_change(Reader, DataLoc(1, 1), 3)
       IN  /\ far.ret.type = "data" /\ far.ret.read = 2 /\ far.calls = 3
           /\ end.ret = EofLoc /\ end.calls = 3 /\ end.shrinks

SelectedLine == virtual_loc_change(Reader, viewport_loc, cursor_loc)

\* C22: the selected line stays on data.  After any sequence of cursor-up,
\* cursor-down, page-up and page-down actions on a file that holds a record,
\* virtual_loc_change(viewport_loc, cursor_loc) is a Data location, never Eof,
\* and viewport_loc is a Data location.
C22_SelectedLineOnData ==
    TotalRecords(file) > 0 =>
        /\ viewport_loc.type = "data"
        /\ SelectedLine.raised = "none"
        /\ SelectedLine.ret.type = "data"

====
